---- MODULE Spec2Model ----
(***************************************************************************)
(* Fallout76MarketplaceKarmaAPI: the "user_karma" profile collection, the  *)
(* three data operations of db_operations.py, the request handlers of      *)
(* main.py (the served application) and of db_routes.py (the router behind *)
(* verify_api_key), and the API-key gate.                                  *)
(*                                                                         *)
(* Python's None and Optional values are modelled as sequences of length   *)
(* at most one: None is <<>>, a present value x is <<x>>.  Header values   *)
(* and secrets are sequences of character codes, so that "is ASCII" and    *)
(* "is a hex string" are computed, not assumed.  An f-string message is    *)
(* the sequence of its literal and interpolated parts.                     *)
(***************************************************************************)
EXTENDS Integers, Sequences, FiniteSets, TLC

VARIABLES
    user_karma,   \* the "user_karma" collection: documents in natural order
    before,       \* the collection as it was when the last request arrived
    request,      \* the last request served
    response,     \* the response to it
    API_KEY,      \* the API_KEY environment value of the process (<<>> = unset)
    generated,    \* the fallback secrets the gate has compared against so far
    pending,      \* per concurrent handler: the write it is about to make
    started       \* number of requests the concurrent handlers have begun

vars == <<user_karma, before, request, response, API_KEY, generated, pending, started>>

None == <<>>
Some(x) == <<x>>

-----------------------------------------------------------------------------
(* Input domains *)

\* karma is an unbounded int; the model takes 0..MaxKarma for karma and two
\* values, one negative, for m76_karma.
MaxKarma == 1

Usernames == {"alice", "bob"}
KarmaValues == 0..MaxKarma
M76KarmaValues == {-1, 0}

Gamertag(gamertag, gamertag_id, platform) ==
    [type |-> "Gamertag", gamertag |-> gamertag, gamertag_id |-> gamertag_id,
     platform |-> platform]

GamertagLists ==
    LET xbox == Gamertag("vaultboy", "76", "XBOX")
        pc   == Gamertag("dweller", "111", "PC")
    IN  {<<>>, <<xbox, pc>>}

UserProfile(reddit_username, karma, gamertags, m76_karma) ==
    [reddit_username |-> reddit_username, karma |-> karma,
     gamertags |-> gamertags, m76_karma |-> m76_karma]

UserProfiles ==
    {UserProfile(u, k, g, m) : u \in Usernames, k \in KarmaValues,
                               g \in GamertagLists, m \in M76KarmaValues}

\* The bodies sent where every header value is tried as well.
HeaderRunProfiles == {p \in UserProfiles : p.m76_karma = 0}

-----------------------------------------------------------------------------
(* pydantic and bson conversions *)

\* Gamertag.model_dump(): the model object becomes a plain dict.
dump_gamertag(g) == [g EXCEPT !.type = "dict"]

\* UserProfile.model_dump(): every field, nested models dumped recursively.
model_dump(user_profile) ==
    [reddit_username |-> user_profile.reddit_username,
     karma |-> user_profile.karma,
     gamertags |-> [i \in 1..Len(user_profile.gamertags) |->
                        dump_gamertag(user_profile.gamertags[i])],
     m76_karma |-> user_profile.m76_karma]

\* What add_user_profile hands to insert_one: the gamertags field is the
\* list of Gamertag model objects itself, not their dumps.
insert_document(user_profile) ==
    [reddit_username |-> user_profile.reddit_username,
     karma |-> user_profile.karma,
     m76_karma |-> user_profile.m76_karma,
     gamertags |-> user_profile.gamertags]

\* bson can encode str, int, list and dict values; a pydantic model object
\* has no encoder (InvalidDocument: cannot encode object).
bson_encodable(document) ==
    \A i \in 1..Len(document.gamertags) : document.gamertags[i].type = "dict"

\* UserProfile(**profile): validation of a stored document; the extra _id
\* key is ignored and each gamertag dict is validated into a Gamertag.
validate_profile(profile) ==
    [reddit_username |-> profile.reddit_username,
     karma |-> profile.karma,
     gamertags |-> [i \in 1..Len(profile.gamertags) |->
                        [profile.gamertags[i] EXCEPT !.type = "Gamertag"]],
     m76_karma |-> profile.m76_karma]

-----------------------------------------------------------------------------
(* The collection: motor's find_one, insert_one, replace_one *)

Matches(coll, reddit_username) ==
    {i \in 1..Len(coll) : coll[i].reddit_username = reddit_username}

FirstMatch(coll, reddit_username) ==
    CHOOSE i \in Matches(coll, reddit_username) :
        \A j \in Matches(coll, reddit_username) : i <= j

\* find_one as it would be with the filter dropped: the first document.
find_one_unfiltered(coll, reddit_username) ==
    IF coll = <<>> THEN None ELSE Some(coll[1])

\* find_one({"reddit_username": u}): the first matching document or None.
find_one(coll, reddit_username) ==
    IF Matches(coll, reddit_username) = {}
    THEN None
    ELSE Some(coll[FirstMatch(coll, reddit_username)])

\* insert_one(document): the document is encoded before anything is sent;
\* an unencodable document raises and writes nothing.  Otherwise it is
\* appended with a fresh _id and the write is acknowledged.
insert_one(coll, document) ==
    IF ~bson_encodable(document)
    THEN [raised |-> TRUE, acknowledged |-> FALSE, coll |-> coll]
    ELSE [raised |-> FALSE, acknowledged |-> TRUE,
          coll |-> Append(coll, [_id |-> Len(coll) + 1,
                                 reddit_username |-> document.reddit_username,
                                 karma |-> document.karma,
                                 m76_karma |-> document.m76_karma,
                                 gamertags |-> document.gamertags])]

\* replace_one as an update of the karma fields only: gamertags survive.
replace_one_karma_only(coll, reddit_username, replacement) ==
    IF Matches(coll, reddit_username) = {}
    THEN coll
    ELSE [coll EXCEPT ![FirstMatch(coll, reddit_username)] =
              [@ EXCEPT !.karma = replacement.karma,
                        !.m76_karma = replacement.m76_karma]]

\* replace_one(filter, replacement): the first matching document is replaced
\* by the replacement, keeping its _id; no match, no write (no upsert).
replace_one(coll, reddit_username, replacement) ==
    IF Matches(coll, reddit_username) = {}
    THEN coll
    ELSE [coll EXCEPT ![FirstMatch(coll, reddit_username)] =
              [_id |-> @._id,
               reddit_username |-> replacement.reddit_username,
               karma |-> replacement.karma,
               m76_karma |-> replacement.m76_karma,
               gamertags |-> replacement.gamertags]]

-----------------------------------------------------------------------------
(* db_operations.py *)

find_profile(reddit_username, users_collection) ==
    LET profile == find_one(users_collection, reddit_username)
    IN  IF profile = None THEN None ELSE Some(validate_profile(profile[1]))

\* update_user_profile as an upsert: an absent profile is created.
update_user_profile_upsert(user_profile, users_collection) ==
    [status |-> TRUE,
     coll |-> IF Matches(users_collection, user_profile.reddit_username) = {}
              THEN insert_one(users_collection, model_dump(user_profile)).coll
              ELSE replace_one(users_collection, user_profile.reddit_username,
                               model_dump(user_profile))]

\* update_user_profile without its test: replace_one, then True, always.
update_user_profile_unchecked(user_profile, users_collection) ==
    [status |-> TRUE,
     coll |-> replace_one(users_collection, user_profile.reddit_username,
                          model_dump(user_profile))]

update_user_profile(user_profile, users_collection) ==
    LET profile == find_one(users_collection, user_profile.reddit_username)
    IN  IF profile # None
        THEN [status |-> TRUE,
              coll |-> replace_one(users_collection, user_profile.reddit_username,
                                   model_dump(user_profile))]
        ELSE [status |-> FALSE, coll |-> users_collection]

\* add_user_profile without its lookup: it always inserts.
add_user_profile_unchecked(user_profile, users_collection) ==
    LET insert_result == insert_one(users_collection, insert_document(user_profile))
    IN  [raised |-> insert_result.raised,
         status |-> insert_result.acknowledged,
         coll |-> insert_result.coll]

add_user_profile(user_profile, users_collection) ==
    LET profile == find_one(users_collection, user_profile.reddit_username)
        insert_result == insert_one(users_collection, insert_document(user_profile))
    IN  IF profile # None
        THEN [raised |-> FALSE, status |-> FALSE, coll |-> users_collection]
        ELSE [raised |-> insert_result.raised,
              status |-> insert_result.acknowledged,
              coll |-> insert_result.coll]

-----------------------------------------------------------------------------
(* Responses and handlers (main.py and db_routes.py share these bodies) *)

JSONResponse(status_code, message) ==
    [status_code |-> status_code, message |-> message, profile |-> None]

ProfileResponse(user_profile) ==
    [status_code |-> 200, message |-> <<>>, profile |-> Some(user_profile)]

\* An exception no handler catches: the server answers 500.
InternalServerError == JSONResponse(500, <<"Internal Server Error">>)

get_user(reddit_username, coll) ==
    LET user_profile == find_profile(reddit_username, coll)
    IN  IF user_profile = None
        THEN JSONResponse(404, <<"Reddit username '", reddit_username, "' not found">>)
        ELSE ProfileResponse(user_profile[1])

update_gamertag(user_profile, coll) ==
    LET r == update_user_profile(user_profile, coll)
    IN  [coll |-> r.coll,
         response |->
            IF r.status
            THEN JSONResponse(200, <<"Karma Profile updated successfully for Reddit username: ",
                                     user_profile.reddit_username, ".">>)
            ELSE JSONResponse(404, <<"Reddit username '", user_profile.reddit_username,
                                     "' not found.">>)]

add_profile(user_profile, coll) ==
    LET r == add_user_profile(user_profile, coll)
    IN  [coll |-> r.coll,
         response |->
            IF r.raised THEN InternalServerError
            ELSE IF r.status
            THEN JSONResponse(200, <<"Karma Profile added successfully for Reddit username: ",
                                     user_profile.reddit_username, ".">>)
            ELSE JSONResponse(400, <<"Profile already exists or invalid fields in user profile.">>)]

-----------------------------------------------------------------------------
(* The API-key gate of db_routes.py *)

\* token_hex is called with 32 bytes; the model draws MaxTokenBytes of them.
MaxTokenBytes == 1

\* Character codes: "0".."9" are 48..57, "a".."f" are 97..102.
hexdigits == <<48, 49, 50, 51, 52, 53, 54, 55, 56, 57, 97, 98, 99, 100, 101, 102>>

\* The bytes the system's random source may deliver in the model.
RandomBytes == {0, 255}

\* secrets.token_hex(nbytes): nbytes random bytes, each written as two hex
\* digits.  The set of strings one call can return.
hex_of(bytes) ==
    [i \in 1..(2 * Len(bytes)) |->
        IF i % 2 = 1 THEN hexdigits[(bytes[(i + 1) \div 2] \div 16) + 1]
                     ELSE hexdigits[(bytes[i \div 2] % 16) + 1]]

token_hex(nbytes) == {hex_of(bytes) : bytes \in [1..nbytes -> RandomBytes]}

\* The configured secret "s3c", and the header values callers send: none, the
\* secret, "s3x", "s", and "k" followed by e-acute (code 233, as a header
\* byte 0xE9 decodes).  No caller sends a string that token_hex draws later:
\* guessing a fresh random token is not modelled.
ConfiguredKey == <<115, 51, 99>>
WrongKey == <<115, 51, 120>>
ShortKey == <<115>>
NonAsciiKey == <<107, 233>>

Headers == {None, Some(ConfiguredKey), Some(WrongKey), Some(ShortKey), Some(NonAsciiKey)}

is_ascii(s) == \A i \in 1..Len(s) : s[i] < 128

\* secrets.compare_digest(a, b) on two str: TypeError unless both are ASCII,
\* otherwise whether they are equal (strings of different length are unequal).
compare_digest(a, b) ==
    IF is_ascii(a) /\ is_ascii(b)
    THEN [raised |-> FALSE, equal |-> a = b]
    ELSE [raised |-> TRUE, equal |-> FALSE]

\* os.getenv(name, default) for a variable whose value is env.
getenv(env, default) == IF env = None THEN default ELSE env[1]

\* verify_api_key(api_key), with the process's API_KEY value and the token
\* that secrets.token_hex(32) returns in this call.
verify_api_key(api_key, env, token) ==
    IF api_key = None
    THEN [outcome |-> "HTTPException", status_code |-> 403, detail |-> "Missing API Key"]
    ELSE LET cmp == compare_digest(api_key[1], getenv(env, token))
         IN  IF cmp.raised
             THEN [outcome |-> "TypeError", status_code |-> 500,
                   detail |-> "Internal Server Error"]
             ELSE IF ~cmp.equal
             THEN [outcome |-> "HTTPException", status_code |-> 403,
                   detail |-> "Invalid API Key"]
             ELSE [outcome |-> "True", status_code |-> 0, detail |-> ""]

-----------------------------------------------------------------------------
(* Requests and the state they leave *)

Request(method, path, reddit_username, body, api_key) ==
    [method |-> method, path |-> path, reddit_username |-> reddit_username,
     body |-> body, api_key |-> api_key]

NoRequest == Request("", "", "", None, None)
NoResponse == JSONResponse(0, <<>>)

Init ==
    /\ user_karma = <<>>
    /\ before = <<>>
    /\ request = NoRequest
    /\ response = NoResponse
    /\ API_KEY = Some(ConfiguredKey)
    /\ generated = {}
    /\ pending = <<>>
    /\ started = 0

\* One whole request: what was asked, what was answered, the collection after.
Serve(req, resp, coll) ==
    /\ request' = req
    /\ response' = resp
    /\ user_karma' = coll
    /\ before' = user_karma

-----------------------------------------------------------------------------
(* The served application: app of main.py.  Its three profile routes are    *)
(* registered on app itself, with no dependency; protected_router is never  *)
(* included, so no path under /api has a route.                             *)

GetUserRoute(api_key) ==
    \E reddit_username \in Usernames :
        /\ Serve(Request("GET", "/users/{reddit_username}", reddit_username, None, api_key),
                 get_user(reddit_username, user_karma), user_karma)
        /\ UNCHANGED <<API_KEY, generated, pending, started>>

UpdateGamertagRoute(api_key, bodies) ==
    \E user_profile \in bodies :
        LET r == update_gamertag(user_profile, user_karma)
        IN  /\ Serve(Request("PUT", "/users/profile", "", Some(user_profile), api_key),
                     r.response, r.coll)
            /\ UNCHANGED <<API_KEY, generated, pending, started>>

AddProfileRoute(api_key, bodies) ==
    \E user_profile \in bodies :
        LET r == add_profile(user_profile, user_karma)
        IN  /\ Serve(Request("POST", "/users/profile", "", Some(user_profile), api_key),
                     r.response, r.coll)
            /\ UNCHANGED <<API_KEY, generated, pending, started>>

\* GET /: RedirectResponse("/docs"), whose default status is 307.
RedirectToDocs(api_key) ==
    /\ Serve(Request("GET", "/", "", None, api_key),
             JSONResponse(307, <<"/docs">>), user_karma)
    /\ UNCHANGED <<API_KEY, generated, pending, started>>

\* A path under the router's /api prefix: app has no such route.
NoRoute(api_key) ==
    \E method \in {"GET", "PUT", "POST"} :
        /\ Serve(Request(method, "/api/users/profile", "", None, api_key),
                 JSONResponse(404, <<"Not Found">>), user_karma)
        /\ UNCHANGED <<API_KEY, generated, pending, started>>

\* The handlers called one request at a time, by a client that sends no key.
AppGetUser == GetUserRoute(None)
AppUpdateGamertag == UpdateGamertagRoute(None, UserProfiles)
AppAddProfile == AddProfileRoute(None, UserProfiles)

Next ==
    \/ AppGetUser
    \/ AppUpdateGamertag
    \/ AppAddProfile

Spec == Init /\ [][Next]_vars

\* The same application with every header value a client may send.
NextApp ==
    \E api_key \in Headers :
        \/ GetUserRoute(api_key)
        \/ UpdateGamertagRoute(api_key, HeaderRunProfiles)
        \/ AddProfileRoute(api_key, HeaderRunProfiles)
        \/ RedirectToDocs(api_key)
        \/ NoRoute(api_key)

SpecApp == Init /\ [][NextApp]_vars

-----------------------------------------------------------------------------
(* protected_router of db_routes.py, as an application that includes it    *)
(* serves it: verify_api_key runs before each of its three handlers.       *)

InitRouter ==
    /\ user_karma = <<>>
    /\ before = <<>>
    /\ request = NoRequest
    /\ response = NoResponse
    /\ API_KEY \in {None, Some(ConfiguredKey)}
    /\ generated = {}
    /\ pending = <<>>
    /\ started = 0

\* The dependency, then the handler: handled is what the handler answers
\* and leaves once the gate has returned True.
Gated(req, handled) ==
    \E token \in token_hex(MaxTokenBytes) :
        LET gate == verify_api_key(req.api_key, API_KEY, token)
        IN  /\ IF gate.outcome = "True"
               THEN Serve(req, handled.response, handled.coll)
               ELSE Serve(req, JSONResponse(gate.status_code, <<gate.detail>>), user_karma)
            /\ generated' = IF req.api_key # None /\ API_KEY = None
                            THEN generated \cup {token}
                            ELSE generated
            /\ UNCHANGED <<API_KEY, pending, started>>

RouterGetUser ==
    \E api_key \in Headers, reddit_username \in Usernames :
        Gated(Request("GET", "/api/users/{reddit_username}", reddit_username, None, api_key),
              [response |-> get_user(reddit_username, user_karma), coll |-> user_karma])

RouterUpdateGamertag ==
    \E api_key \in Headers, user_profile \in HeaderRunProfiles :
        Gated(Request("PUT", "/api/users/profile", "", Some(user_profile), api_key),
              update_gamertag(user_profile, user_karma))

RouterAddProfile ==
    \E api_key \in Headers, user_profile \in HeaderRunProfiles :
        Gated(Request("POST", "/api/users/profile", "", Some(user_profile), api_key),
              add_profile(user_profile, user_karma))

NextRouter ==
    \/ RouterGetUser
    \/ RouterUpdateGamertag
    \/ RouterAddProfile

SpecRouter == InitRouter /\ [][NextRouter]_vars

-----------------------------------------------------------------------------
(* The handlers of main.py as the event loop runs them: each await of a     *)
(* collection call is a point where another request's handler may run.      *)
(* update_user_profile and add_user_profile await find_one, then await the  *)
(* write; find_profile awaits find_one alone.                               *)

\* Handlers that may be between their two awaits at once, and the number of
\* requests they begin in a run.
NumHandlers == 2
MaxRequests == 3

Handlers == 1..NumHandlers

InitConcurrent ==
    /\ user_karma = <<>>
    /\ before = <<>>
    /\ request = NoRequest
    /\ response = NoResponse
    /\ API_KEY = Some(ConfiguredKey)
    /\ generated = {}
    /\ pending = [h \in Handlers |-> None]
    /\ started = 0

Respond(req, resp) ==
    /\ request' = req
    /\ response' = resp
    /\ UNCHANGED <<before, API_KEY, generated>>

\* GET: one await, find_one.
ConcurrentGetUser(h) ==
    \E reddit_username \in Usernames :
        /\ pending[h] = None
        /\ started < MaxRequests
        /\ started' = started + 1
        /\ Respond(Request("GET", "/users/{reddit_username}", reddit_username, None, None),
                   get_user(reddit_username, user_karma))
        /\ UNCHANGED <<user_karma, pending>>

\* PUT up to its second await: find_one has returned, replace_one not yet run.
UpdateFind(h) ==
    \E user_profile \in UserProfiles :
        LET req == Request("PUT", "/users/profile", "", Some(user_profile), None)
        IN  /\ pending[h] = None
            /\ started < MaxRequests
            /\ started' = started + 1
            /\ IF find_one(user_karma, user_profile.reddit_username) # None
               THEN /\ pending' = [pending EXCEPT ![h] = Some(req)]
                    /\ UNCHANGED <<request, response, before, API_KEY, generated>>
               ELSE /\ Respond(req, update_gamertag(user_profile, user_karma).response)
                    /\ UNCHANGED pending
            /\ UNCHANGED user_karma

\* PUT from its second await on: replace_one, return True, answer 200.
UpdateReplace(h) ==
    /\ pending[h] # None
    /\ pending[h][1].method = "PUT"
    /\ LET user_profile == pending[h][1].body[1]
       IN  /\ user_karma' = replace_one(user_karma, user_profile.reddit_username,
                                        model_dump(user_profile))
           /\ Respond(pending[h][1],
                      JSONResponse(200, <<"Karma Profile updated successfully for Reddit username: ",
                                          user_profile.reddit_username, ".">>))
    /\ pending' = [pending EXCEPT ![h] = None]
    /\ UNCHANGED started

\* POST up to its second await: find_one has returned, insert_one not yet run.
AddFind(h) ==
    \E user_profile \in UserProfiles :
        LET req == Request("POST", "/users/profile", "", Some(user_profile), None)
        IN  /\ pending[h] = None
            /\ started < MaxRequests
            /\ started' = started + 1
            /\ IF find_one(user_karma, user_profile.reddit_username) = None
               THEN /\ pending' = [pending EXCEPT ![h] = Some(req)]
                    /\ UNCHANGED <<request, response, before, API_KEY, generated>>
               ELSE /\ Respond(req, add_profile(user_profile, user_karma).response)
                    /\ UNCHANGED pending
            /\ UNCHANGED user_karma

\* POST from its second await on: insert_one, return acknowledged, answer.
AddInsert(h) ==
    /\ pending[h] # None
    /\ pending[h][1].method = "POST"
    /\ LET user_profile == pending[h][1].body[1]
           insert_result == insert_one(user_karma, insert_document(user_profile))
       IN  /\ user_karma' = insert_result.coll
           /\ Respond(pending[h][1],
                      IF insert_result.raised THEN InternalServerError
                      ELSE IF insert_result.acknowledged
                      THEN JSONResponse(200, <<"Karma Profile added successfully for Reddit username: ",
                                               user_profile.reddit_username, ".">>)
                      ELSE JSONResponse(400, <<"Profile already exists or invalid fields in user profile.">>))
    /\ pending' = [pending EXCEPT ![h] = None]
    /\ UNCHANGED started

NextConcurrent ==
    \E h \in Handlers :
        \/ ConcurrentGetUser(h)
        \/ UpdateFind(h)
        \/ UpdateReplace(h)
        \/ AddFind(h)
        \/ AddInsert(h)

SpecConcurrent == InitConcurrent /\ [][NextConcurrent]_vars

-----------------------------------------------------------------------------
(* Vocabulary of the properties, stated on documents and responses directly *)

Present(coll, reddit_username) ==
    \E i \in 1..Len(coll) : coll[i].reddit_username = reddit_username

StoredUsernames(coll) == {coll[i].reddit_username : i \in 1..Len(coll)}

AtMostOnePerUsername(coll) ==
    \A i, j \in 1..Len(coll) :
        coll[i].reddit_username = coll[j].reddit_username => i = j

\* The stored document holds exactly the fields of user_profile, the
\* gamertags complete and in order.
HoldsProfile(document, user_profile) ==
    /\ document.reddit_username = user_profile.reddit_username
    /\ document.karma = user_profile.karma
    /\ document.m76_karma = user_profile.m76_karma
    /\ Len(document.gamertags) = Len(user_profile.gamertags)
    /\ \A i \in 1..Len(user_profile.gamertags) :
        /\ document.gamertags[i].gamertag = user_profile.gamertags[i].gamertag
        /\ document.gamertags[i].gamertag_id = user_profile.gamertags[i].gamertag_id
        /\ document.gamertags[i].platform = user_profile.gamertags[i].platform

Names(message, reddit_username) ==
    \E i \in 1..Len(message) : message[i] = reddit_username

\* What a GET for reddit_username issued now is answered.
GetNow(reddit_username) == get_user(reddit_username, user_karma)

Is(method) == request.method = method
Body == request.body[1]

-----------------------------------------------------------------------------
(* C1: at most one document per reddit_username, also when the handlers of  *)
(* concurrent requests interleave between lookup and write.                 *)

\* C1 as claimed: in every reachable state of the interleaved handlers no
\* two documents of the collection share a reddit_username.
C1_UniqueUnderInterleaving == AtMostOnePerUsername(user_karma)

-----------------------------------------------------------------------------
(* C2: POST of a profile whose username is absent answers 200, and the GET  *)
(* issued next returns that profile, gamertags included.                    *)

\* C2 as claimed: after a POST whose username was absent when it arrived,
\* the answer is 200 and a GET for that username now answers 200 with a
\* profile equal to the posted one in every field.
C2_PostThenGet ==
    (Is("POST") /\ ~Present(before, Body.reddit_username)) =>
        /\ response.status_code = 200
        /\ GetNow(Body.reddit_username).status_code = 200
        /\ GetNow(Body.reddit_username).profile = Some(Body)

-----------------------------------------------------------------------------
(* C3: POST of a profile whose username is present answers 400 and writes   *)
(* nothing.                                                                 *)

\* C3: after a POST whose username was present when it arrived, the answer
\* is 400 with the generic message and the collection is what it was.
C3_PostPresentRejected ==
    (Is("POST") /\ Present(before, Body.reddit_username)) =>
        /\ response.status_code = 400
        /\ response.message = <<"Profile already exists or invalid fields in user profile.">>
        /\ response.profile = None
        /\ user_karma = before

\* C3 happens: a POST for a stored username, with other karma and with
\* gamertags, was answered and the collection holds two documents.
C3_Witness ==
    /\ Is("POST")
    /\ Len(before) = 2
    /\ \E i \in 1..Len(before) :
        /\ before[i].reddit_username = Body.reddit_username
        /\ before[i].karma # Body.karma
    /\ Body.gamertags # <<>>

-----------------------------------------------------------------------------
(* C4: PUT of a profile whose username is present answers 200, replaces     *)
(* every field, and leaves the other documents alone.                       *)

\* C4: after a PUT whose username was present when it arrived, the answer
\* is 200, a GET for that username now returns exactly the profile sent,
\* and every document of another username is unchanged.
C4_PutReplacesWhole ==
    (Is("PUT") /\ Present(before, Body.reddit_username)) =>
        /\ response.status_code = 200
        /\ GetNow(Body.reddit_username).status_code = 200
        /\ GetNow(Body.reddit_username).profile = Some(Body)
        /\ Len(user_karma) = Len(before)
        /\ \A i \in 1..Len(before) :
            before[i].reddit_username # Body.reddit_username => user_karma[i] = before[i]

\* C4 happens: a PUT changed karma, m76_karma and gamertags of a stored
\* profile at once, next to a document of another username.
C4_Witness ==
    /\ Is("PUT")
    /\ Len(before) = 2
    /\ \E i \in 1..Len(before) :
        /\ before[i].reddit_username = Body.reddit_username
        /\ before[i].karma # Body.karma
        /\ before[i].m76_karma # Body.m76_karma
        /\ Len(before[i].gamertags) # Len(Body.gamertags)
    /\ response.status_code = 200

-----------------------------------------------------------------------------
(* C5: PUT of a profile whose username is absent answers 404 and creates    *)
(* nothing.                                                                 *)

\* C5: after a PUT whose username was absent when it arrived, the answer is
\* 404 with a message naming the username and the collection is what it was.
C5_PutAbsentNotFound ==
    (Is("PUT") /\ ~Present(before, Body.reddit_username)) =>
        /\ response.status_code = 404
        /\ Names(response.message, Body.reddit_username)
        /\ response.profile = None
        /\ user_karma = before

\* C5 happens: a PUT for an absent username was answered while another
\* username is stored.
C5_Witness ==
    /\ Is("PUT")
    /\ ~Present(before, Body.reddit_username)
    /\ Len(before) = 1
    /\ response.status_code = 404

-----------------------------------------------------------------------------
(* C6: on the served application no PUT or POST without the configured key  *)
(* reaches its handler.                                                     *)

\* C6 as claimed: every PUT or POST to /users/profile whose X-API-Key header
\* is missing or differs from the configured secret is answered 403 and
\* leaves the collection unchanged.
C6_WritesNeedKey ==
    (request.method \in {"PUT", "POST"} /\ request.path = "/users/profile"
        /\ request.api_key # API_KEY) =>
        /\ response.status_code = 403
        /\ user_karma = before

-----------------------------------------------------------------------------
(* C7: the three outcomes of verify_api_key.                                *)

\* C7 as claimed: with a configured secret, a gated request without the
\* header is answered 403 "Missing API Key", one whose header differs from
\* the secret is answered 403 "Invalid API Key", both leaving the collection
\* unchanged, and one whose header equals the secret is answered by its
\* handler (never 403).
C7_GateThreeOutcomes ==
    (API_KEY # None /\ request # NoRequest) =>
        /\ request.api_key = None =>
            /\ response = JSONResponse(403, <<"Missing API Key">>)
            /\ user_karma = before
        /\ (request.api_key # None /\ request.api_key # API_KEY) =>
            /\ response = JSONResponse(403, <<"Invalid API Key">>)
            /\ user_karma = before
        /\ request.api_key = API_KEY => response.status_code \in {200, 400, 404}

-----------------------------------------------------------------------------
(* C8: with API_KEY unset the gate holds one generated secret and rejects   *)
(* every request with 403.                                                  *)

\* C8 as claimed: while API_KEY is unset, all the comparisons the gate has
\* made were against one and the same generated secret, and every gated
\* request was answered 403 with the collection unchanged.
C8_UnsetKeyRejectsAll ==
    API_KEY = None =>
        /\ Cardinality(generated) <= 1
        /\ request # NoRequest =>
            /\ response.status_code = 403
            /\ user_karma = before

-----------------------------------------------------------------------------
(* C9: GET answers 200 with the stored profile exactly when a document of   *)
(* that username exists, else 404 naming the username; it never writes.     *)

-----------------------------------------------------------------------------
(* C10: served one at a time, requests keep one document per username; the  *)
(* stored usernames grow only by a POST answered 200 and never shrink.      *)

====
